---- MODULE Spec2Model ----
(***************************************************************************)
(* A model of the glue layer of web-ui:                                    *)
(*   - DeepResearchAgent (src/agent/deep_research/deep_research_agent.py): *)
(*     research(), run_single_browser_task(), _generate_report(), stop();  *)
(*   - MCPManager (src/utils/mcp_client.py): setup_mcp_servers(),          *)
(*     disconnect_all();                                                   *)
(*   - get_llm_model (src/utils/llm_provider.py).                          *)
(* Each component has its own next-state relation and specification; the   *)
(* variables of the other components stay as Init leaves them.             *)
(*                                                                         *)
(* Text is modelled as a sequence of tokens, so that an f-string is the    *)
(* concatenation of its literal parts and its formatted values.            *)
(***************************************************************************)
EXTENDS Integers, Sequences, FiniteSets, TLC

VARIABLES
    \* ---- DeepResearchAgent and the module globals of deep_research_agent.py
    pc,                 \* position of the research() coroutine
    stopped,            \* self.stopped
    current_task_id,    \* self.current_task_id (PyNone or a task id)
    stop_event,         \* self.stop_event (PyNone: research() never assigns it)
    AGENT_STOP_FLAGS,   \* keys of _AGENT_STOP_FLAGS (all values are True)
    BROWSER_AGENT_INSTANCES, \* keys of _BROWSER_AGENT_INSTANCES
    query,              \* argument of research()
    output_dir,         \* argument of research()
    task_id,            \* local task_id of research()
    local_stop_event,   \* the threading.Event made in _conduct_browser_research
    task_result,        \* the dict run_single_browser_task returns
    research_data,      \* browser_results / research_data
    llm_prompt,         \* the prompt handed to llm.ainvoke
    llm_raised,         \* the exception llm.ainvoke raised (PyNone if none)
    report_content,     \* what _generate_report returns
    retval,             \* what research() returned (PyNone before)
    raised,             \* the exception research() raised (PyNone if none)
    thrown,             \* the exception raised inside research() (PyNone if none)
    dirs,               \* the directories that exist
    files,              \* path -> content of the file there, or NoFile
    written,            \* paths opened for writing during the current call
    events,             \* the steps of the current call, in order
    stop_at,            \* where research() was at the first stop() of the current call
    runs,               \* research() calls started so far
    \* ---- MCPManager
    clients,            \* self.clients: server names in dict order
    connected_servers,  \* self.connected_servers
    mcp_call,           \* the last MCPManager call: input, outcomes, result
    \* ---- get_llm_model
    llm_call,           \* the last get_llm_model call: input and result
    \* ---- CustomController.act
    act_call,           \* the last act call: input, calls made, result
    \* ---- setup_mcp_servers calls that overlap on the global manager
    mcp_manager,        \* _mcp_manager: its clients (name, client) and connected_servers
    tasks,              \* per caller: position in setup_mcp_servers and its locals
    made,               \* MCPClient objects constructed so far
    live,               \* clients whose connect succeeded and disconnect was never called
    iter_insert         \* an insert into clients happened while a disconnect_all loop was open

vars == <<pc, stopped, current_task_id, stop_event, AGENT_STOP_FLAGS,
          BROWSER_AGENT_INSTANCES, query, output_dir, task_id, local_stop_event,
          task_result, research_data, llm_prompt, llm_raised, report_content, retval,
          raised, thrown, dirs, files, written, events, stop_at, runs,
          clients, connected_servers, mcp_call, llm_call, act_call,
          mcp_manager, tasks, made, live, iter_insert>>

researchVars == <<pc, stopped, current_task_id, stop_event, AGENT_STOP_FLAGS,
          BROWSER_AGENT_INSTANCES, query, output_dir, task_id, local_stop_event,
          task_result, research_data, llm_prompt, llm_raised, report_content, retval,
          raised, thrown, dirs, files, written, events, stop_at, runs>>

mcpVars == <<clients, connected_servers, mcp_call>>

llmVars == <<llm_call>>

actVars == <<act_call>>

overlapVars == <<mcp_manager, tasks, made, live, iter_insert>>

(***************************************************************************)
(* Bounds of the model.                                                    *)
(***************************************************************************)
\* research() calls made one after the other on one agent
MaxRuns == 2

(***************************************************************************)
(* Python values.                                                          *)
(***************************************************************************)
\* None, as a value distinct from every text the program builds
PyNone == <<"<None>">>

\* str(x) inside an f-string: None prints as the word None
Str(x) == IF x = PyNone THEN <<"None">> ELSE x

\* s.startswith(t)
StartsWith(s, t) == Len(s) >= Len(t) /\ SubSeq(s, 1, Len(t)) = t

(***************************************************************************)
(* deep_research_agent.py                                                  *)
(***************************************************************************)
REPORT_FILENAME == "report.md"

\* os.path.join(output_dir, REPORT_FILENAME)
PathJoin(d, name) == <<d, name>>

Queries == {<<"q1">>, <<"q2">>}
OutputDirs == {"out1", "out2"}
ReportPaths == {PathJoin(d, REPORT_FILENAME) : d \in OutputDirs}
NoFile == <<"<no file>">>

\* what the external calls can do
Exceptions == {<<"boom">>}
OsErrors == {<<"PermissionError">>, <<"FileExistsError">>}
AgentHistories == {<<"AgentHistoryList(h1)">>}
\* a response object: its content and text attributes (NoAttr when it has none)
\* and what str() makes of it
NoAttr == <<"<no attribute>">>
LlmResponses == {[content |-> <<"report by llm">>, text |-> NoAttr, repr |-> <<"repr1">>],
                 [content |-> <<"report by llm">>, text |-> <<"text by llm">>, repr |-> <<"repr2">>],
                 [content |-> NoAttr, text |-> <<"text by llm">>, repr |-> <<"repr3">>],
                 [content |-> NoAttr, text |-> NoAttr, repr |-> <<"repr4">>]}
WriteOutcomes == {"ok", "open_fails", "write_fails"}

\* run_single_browser_task has not returned yet
NoResult == [query |-> PyNone, result |-> PyNone, status |-> "none"]

\* run_single_browser_task's three return values
TaskCancelled(q) == [query |-> q, result |-> PyNone, status |-> "cancelled"]
TaskCompleted(q, history) == [query |-> q, result |-> Str(history), status |-> "completed"]
TaskFailed(q, e) == [query |-> q, result |-> <<"Error: ">> \o Str(e), status |-> "failed"]

\* the task_query _conduct_browser_research builds
TaskQuery(q) == <<"Research and gather comprehensive information about: ">> \o q

\* result.get("result", "No results found"): the key is always present
ResultOf(result) == result.result

\* the prompt of _generate_report
ReportPrompt(q, data) ==
    <<"You are a research analyst ... Research Question: ">> \o Str(q)
      \o <<"Research Data:">> \o Str(data)
      \o <<"Please create a well-structured, comprehensive research report ...">>

\* the three shapes of response _generate_report accepts
ResponseText(resp) ==
    IF resp.content # NoAttr THEN resp.content
    ELSE IF resp.text # NoAttr THEN resp.text
    ELSE resp.repr

\* the report _generate_report returns when the LLM call raises
FallbackReport(e, data) ==
    <<"# Research Report", "## Error", "Failed to generate report: ">> \o Str(e)
      \o <<"## Raw Data">> \o Str(data)

InitResearch ==
    /\ pc = "idle"
    /\ stopped = FALSE
    /\ current_task_id = PyNone
    /\ stop_event = PyNone
    /\ AGENT_STOP_FLAGS = {}
    /\ BROWSER_AGENT_INSTANCES = {}
    /\ query = PyNone
    /\ output_dir = PyNone
    /\ task_id = PyNone
    /\ local_stop_event = FALSE
    /\ task_result = NoResult
    /\ research_data = PyNone
    /\ llm_prompt = PyNone
    /\ llm_raised = PyNone
    /\ report_content = PyNone
    /\ retval = PyNone
    /\ raised = PyNone
    /\ thrown = PyNone
    /\ dirs = {}
    /\ files = [p \in ReportPaths |-> NoFile]
    /\ written = {}
    /\ events = <<>>
    /\ stop_at = PyNone
    /\ runs = 0

\* f"research_{uuid.uuid4().hex[:8]}": a fresh id per call
NewTaskId(n) == <<"research_", n>>

\* research() is called: the coroutine starts on fresh locals
ResearchCall ==
    /\ pc \in {"idle", "returned", "raised"}
    /\ runs < MaxRuns
    /\ \E q \in Queries, d \in OutputDirs :
          /\ query' = q
          /\ output_dir' = d
    /\ runs' = runs + 1
    /\ pc' = "makedirs"
    /\ task_id' = PyNone
    /\ local_stop_event' = FALSE
    /\ task_result' = NoResult
    /\ research_data' = PyNone
    /\ llm_prompt' = PyNone
    /\ llm_raised' = PyNone
    /\ report_content' = PyNone
    /\ retval' = PyNone
    /\ raised' = PyNone
    /\ thrown' = PyNone
    /\ written' = {}
    /\ events' = <<>>
    /\ stop_at' = PyNone
    /\ UNCHANGED <<mcpVars, llmVars, actVars, overlapVars>>
    /\ UNCHANGED <<stopped, current_task_id, stop_event, AGENT_STOP_FLAGS,
                   BROWSER_AGENT_INSTANCES, dirs, files>>

\* os.makedirs(output_dir, exist_ok=True), then the task id; a failure is logged,
\* re-raised, and the finally clause clears current_task_id
Makedirs ==
    /\ pc = "makedirs"
    /\ \/ /\ dirs' = dirs \cup {output_dir}
          /\ task_id' = NewTaskId(runs)
          /\ current_task_id' = NewTaskId(runs)
          /\ pc' = "build"
          /\ UNCHANGED <<raised, thrown>>
       \/ /\ \E e \in OsErrors :
                /\ thrown' = e
                /\ raised' = e
          /\ current_task_id' = PyNone
          /\ pc' = "raised"
          /\ UNCHANGED <<dirs, task_id>>
    /\ UNCHANGED <<mcpVars, llmVars, actVars, overlapVars>>
    /\ UNCHANGED <<stopped, stop_event, AGENT_STOP_FLAGS, BROWSER_AGENT_INSTANCES,
                   query, output_dir, local_stop_event, task_result, research_data,
                   llm_prompt, llm_raised, report_content, retval, files, written, events,
                   stop_at, runs>>

\* Cleanup that leaves the registry as it is
CleanupNothing(instances, id) == instances

\* the finally clause of run_single_browser_task
Cleanup(instances, id) == instances \ {id}

\* _conduct_browser_research makes its stop event and calls
\* run_single_browser_task, which builds the profile, the controller and the
\* agent and stores the agent; an exception there ends the task as failed
BuildAgent ==
    /\ pc = "build"
    /\ local_stop_event' = FALSE
    /\ \/ /\ BROWSER_AGENT_INSTANCES' = BROWSER_AGENT_INSTANCES \cup {task_id}
          /\ events' = Append(events, "browser_start")
          /\ pc' = "stop_check"
          /\ UNCHANGED <<task_result, research_data>>
       \/ /\ \E e \in Exceptions :
                /\ task_result' = TaskFailed(TaskQuery(query), e)
                /\ research_data' = ResultOf(TaskFailed(TaskQuery(query), e))
          /\ BROWSER_AGENT_INSTANCES' = Cleanup(BROWSER_AGENT_INSTANCES, task_id)
          /\ events' = events \o <<"browser_start", "browser_end">>
          /\ pc' = "generate"
    /\ UNCHANGED <<mcpVars, llmVars, actVars, overlapVars>>
    /\ UNCHANGED <<stopped, current_task_id, stop_event, AGENT_STOP_FLAGS, query,
                   output_dir, task_id, llm_prompt, llm_raised, report_content, retval, raised, thrown,
                   dirs, files, written, stop_at, runs>>

\* if stop_event.is_set(): return cancelled; otherwise browser_agent.run() is
\* called and the coroutine waits for it
StopCheck ==
    /\ pc = "stop_check"
    /\ IF local_stop_event
       THEN /\ task_result' = TaskCancelled(TaskQuery(query))
            /\ research_data' = ResultOf(TaskCancelled(TaskQuery(query)))
            /\ BROWSER_AGENT_INSTANCES' = Cleanup(BROWSER_AGENT_INSTANCES, task_id)
            /\ events' = Append(events, "browser_end")
            /\ pc' = "generate"
       ELSE /\ events' = Append(events, "agent_run")
            /\ pc' = "agent_running"
            /\ UNCHANGED <<task_result, research_data, BROWSER_AGENT_INSTANCES>>
    /\ UNCHANGED <<mcpVars, llmVars, actVars, overlapVars>>
    /\ UNCHANGED <<stopped, current_task_id, stop_event, AGENT_STOP_FLAGS, query,
                   output_dir, task_id, local_stop_event, llm_prompt, llm_raised, report_content,
                   retval, raised, thrown, dirs, files, written, stop_at, runs>>

\* AgentRunEnds with a retry: a run that raised sends the task back to its start
AgentRunEndsRetrying ==
    /\ pc = "agent_running"
    /\ \/ /\ \E h \in AgentHistories :
                /\ task_result' = TaskCompleted(TaskQuery(query), h)
                /\ research_data' = ResultOf(TaskCompleted(TaskQuery(query), h))
          /\ events' = Append(events, "browser_end")
          /\ pc' = "generate"
       \/ /\ events' = Append(events, "browser_end")
          /\ pc' = "build"
          /\ UNCHANGED <<task_result, research_data>>
    /\ BROWSER_AGENT_INSTANCES' = Cleanup(BROWSER_AGENT_INSTANCES, task_id)
    /\ UNCHANGED <<mcpVars, llmVars, actVars, overlapVars>>
    /\ UNCHANGED <<stopped, current_task_id, stop_event, AGENT_STOP_FLAGS, query,
                   output_dir, task_id, local_stop_event, llm_prompt, llm_raised,
                   report_content, retval, raised, thrown, dirs, files, written, stop_at,
                   runs>>

\* browser_agent.run() ends: with a history, or with an exception
AgentRunEnds ==
    /\ pc = "agent_running"
    /\ \E r \in {TaskCompleted(TaskQuery(query), h) : h \in AgentHistories}
               \cup {TaskFailed(TaskQuery(query), e) : e \in Exceptions} :
          /\ task_result' = r
          /\ research_data' = ResultOf(r)
    /\ BROWSER_AGENT_INSTANCES' = Cleanup(BROWSER_AGENT_INSTANCES, task_id)
    /\ events' = Append(events, "browser_end")
    /\ pc' = "generate"
    /\ UNCHANGED <<mcpVars, llmVars, actVars, overlapVars>>
    /\ UNCHANGED <<stopped, current_task_id, stop_event, AGENT_STOP_FLAGS, query,
                   output_dir, task_id, local_stop_event, llm_prompt, llm_raised, report_content,
                   retval, raised, thrown, dirs, files, written, stop_at, runs>>

\* _generate_report builds the prompt from the research data and awaits
\* self.llm.ainvoke(messages)
GenerateReport ==
    /\ pc = "generate"
    /\ llm_prompt' = ReportPrompt(query, research_data)
    /\ events' = Append(events, "llm_start")
    /\ pc' = "llm_running"
    /\ UNCHANGED <<mcpVars, llmVars, actVars, overlapVars>>
    /\ UNCHANGED <<stopped, current_task_id, stop_event, AGENT_STOP_FLAGS,
                   BROWSER_AGENT_INSTANCES, query, output_dir, task_id,
                   local_stop_event, task_result, research_data, llm_raised,
                   report_content, retval, raised, thrown, dirs, files, written, stop_at,
                   runs>>

\* ainvoke ends: with a response, whose text becomes the report, or with an
\* exception, which the except clause turns into the fallback report
LlmEnds ==
    /\ pc = "llm_running"
    /\ \/ \E resp \in LlmResponses :
             /\ report_content' = ResponseText(resp)
             /\ llm_raised' = PyNone
       \/ \E e \in Exceptions :
             /\ report_content' = FallbackReport(e, research_data)
             /\ llm_raised' = e
    /\ events' = Append(events, "llm_end")
    /\ pc' = "write"
    /\ UNCHANGED <<mcpVars, llmVars, actVars, overlapVars>>
    /\ UNCHANGED <<stopped, current_task_id, stop_event, AGENT_STOP_FLAGS,
                   BROWSER_AGENT_INSTANCES, query, output_dir, task_id,
                   local_stop_event, task_result, research_data, llm_prompt,
                   retval, raised, thrown, dirs, files, written, stop_at, runs>>

\* write_file_content(file_path, content) on the file system fs: open(.., 'w')
\* creates or truncates the file and f.write fills it; every exception is
\* swallowed and turned into the returned message
WriteFileContent(fs, file_path, content, outcome) ==
    CASE outcome = "ok" ->
            [fs |-> [fs EXCEPT ![file_path] = content],
             opened |-> {file_path},
             msg |-> <<"Successfully wrote to ">> \o file_path]
      [] outcome = "write_fails" ->
            [fs |-> [fs EXCEPT ![file_path] = <<>>],
             opened |-> {file_path},
             msg |-> <<"Error writing file: ">> \o <<"write failed">>]
      [] OTHER ->
            [fs |-> fs,
             opened |-> {},
             msg |-> <<"Error writing file: ">> \o <<"open failed">>]

\* WriteReport without the finally clause: current_task_id keeps the task id
WriteReportKeepingTaskId ==
    /\ pc = "write"
    /\ \E outcome \in WriteOutcomes :
          LET report_path == PathJoin(output_dir, REPORT_FILENAME)
              w == WriteFileContent(files, report_path, report_content, outcome)
          IN  /\ files' = w.fs
              /\ written' = written \cup w.opened
              /\ retval' = report_path
    /\ events' = Append(events, "write")
    /\ pc' = "returned"
    /\ UNCHANGED <<mcpVars, llmVars, actVars, overlapVars>>
    /\ UNCHANGED <<stopped, current_task_id, stop_event, AGENT_STOP_FLAGS,
                   BROWSER_AGENT_INSTANCES, query, output_dir, task_id,
                   local_stop_event, task_result, research_data, llm_prompt,
                   llm_raised, report_content, raised, thrown, dirs, stop_at, runs>>

\* research() saves the report, ignoring what write_file_content returns, and
\* returns report_path; the finally clause clears current_task_id
WriteReport ==
    /\ pc = "write"
    /\ \E outcome \in WriteOutcomes :
          LET report_path == PathJoin(output_dir, REPORT_FILENAME)
              w == WriteFileContent(files, report_path, report_content, outcome)
          IN  /\ files' = w.fs
              /\ written' = written \cup w.opened
              /\ retval' = report_path
    /\ events' = Append(events, "write")
    /\ current_task_id' = PyNone
    /\ pc' = "returned"
    /\ UNCHANGED <<mcpVars, llmVars, actVars, overlapVars>>
    /\ UNCHANGED <<stopped, stop_event, AGENT_STOP_FLAGS, BROWSER_AGENT_INSTANCES,
                   query, output_dir, task_id, local_stop_event, task_result,
                   research_data, llm_prompt, llm_raised, report_content, raised, thrown, dirs,
                   stop_at, runs>>

\* DeepResearchAgent.stop(), called from outside the coroutine at any moment
Stop ==
    /\ stopped' = TRUE
    /\ AGENT_STOP_FLAGS' = IF current_task_id # PyNone
                           THEN AGENT_STOP_FLAGS \cup {current_task_id}
                           ELSE AGENT_STOP_FLAGS
    /\ stop_event' = IF stop_event # PyNone THEN <<"set">> ELSE stop_event
    /\ stop_at' = IF stop_at = PyNone THEN <<pc>> ELSE stop_at
    /\ UNCHANGED <<mcpVars, llmVars, actVars, overlapVars>>
    /\ UNCHANGED <<pc, current_task_id, BROWSER_AGENT_INSTANCES, query, output_dir,
                   task_id, local_stop_event, task_result, research_data,
                   llm_prompt, llm_raised, report_content, retval, raised, thrown, dirs, files,
                   written, events, runs>>

NextResearch ==
    \/ ResearchCall
    \/ Makedirs
    \/ BuildAgent
    \/ StopCheck
    \/ AgentRunEnds
    \/ GenerateReport
    \/ LlmEnds
    \/ WriteReport
    \/ Stop

(***************************************************************************)
(* mcp_client.py                                                           *)
(*                                                                         *)
(* A Python dict is a sequence of (key, value) items in insertion order    *)
(* with no key twice; a value is a dict or a string.                       *)
(***************************************************************************)
Dict(items) == [kind |-> "dict", items |-> items]
StrV(s) == [kind |-> "str", s |-> s]
Item(k, v) == [key |-> k, value |-> v]

\* key in d
HasKey(d, k) == \E i \in 1..Len(d.items) : d.items[i].key = k

\* d[key], for a key that is there
GetItem(d, k) == d.items[CHOOSE i \in 1..Len(d.items) : d.items[i].key = k].value

\* bool(d)
Truthy(d) == Len(d.items) > 0

\* bool(server_config.get("command")): None, missing and "" are all falsy
HasCommand(server_config) ==
    /\ HasKey(server_config, "command")
    /\ GetItem(server_config, "command").kind = "str"
    /\ GetItem(server_config, "command").s # ""

ServerNames == {"a", "b"}

\* a server's {command, args, env} entry, with and without a command
ServerEntries ==
    {Dict(<<Item("command", StrV("npx")), Item("args", StrV("-y pkg"))>>),
     Dict(<<Item("args", StrV("-y pkg"))>>)}

\* the server dictionaries: up to two servers
ServerDicts ==
    {Dict(<<>>)}
    \cup {Dict(<<Item(n, e)>>) : n \in ServerNames, e \in ServerEntries}
    \cup {Dict(<<Item(n[1], e[1]), Item(n[2], e[2])>>) :
            n \in {m \in ServerNames \X ServerNames : m[1] # m[2]},
            e \in ServerEntries \X ServerEntries}

\* the same dictionary nested under the mcpServers key
Nested(c) == Dict(<<Item("mcpServers", c)>>)

\* server dictionaries that name a server mcpServers
ShadowedDicts ==
    {Dict(<<Item("mcpServers", e)>>) : e \in ServerEntries}
    \cup {Dict(<<Item("a", e), Item("mcpServers", e)>>) : e \in ServerEntries}

McpConfigs == ServerDicts \cup ShadowedDicts
              \cup {Nested(c) : c \in ServerDicts \cup ShadowedDicts}

SeqRange(s) == {s[i] : i \in 1..Len(s)}

\* self.clients[server_name] = client keeps the place of a key already there
DictSet(keys, k) == IF k \in SeqRange(keys) THEN keys ELSE Append(keys, k)

\* DisconnectLoop leaving the loop at the first client whose disconnect raises
RECURSIVE DisconnectLoopBreaking(_, _)
DisconnectLoopBreaking(keys, disc_fails) ==
    IF keys = <<>> THEN <<>>
    ELSE IF Head(keys) \in disc_fails
    THEN <<[op |-> "disconnect", server |-> Head(keys), raised |-> TRUE]>>
    ELSE <<[op |-> "disconnect", server |-> Head(keys), raised |-> FALSE]>>
         \o DisconnectLoopBreaking(Tail(keys), disc_fails)

\* disconnect_all(): disconnect every client of self.clients in order, an
\* exception of one is logged; then both collections are cleared.
\* The result holds the calls made on the clients.
RECURSIVE DisconnectLoop(_, _)
DisconnectLoop(keys, disc_fails) ==
    IF keys = <<>> THEN <<>>
    ELSE <<[op |-> "disconnect", server |-> Head(keys),
            raised |-> Head(keys) \in disc_fails]>>
         \o DisconnectLoop(Tail(keys), disc_fails)

\* DisconnectAll forgetting connected_servers.clear()
DisconnectAllKeepingNames(mgr, disc_fails) ==
    [clients |-> <<>>, connected_servers |-> mgr.connected_servers,
     log |-> DisconnectLoop(mgr.clients, disc_fails)]

DisconnectAll(mgr, disc_fails) ==
    [clients |-> <<>>, connected_servers |-> <<>>,
     log |-> DisconnectLoop(mgr.clients, disc_fails)]

\* ConnectOne appending the name to connected_servers before connect() is awaited
ConnectOneRecordingEarly(st, server_name, server_config, connect_fails) ==
    IF server_config.kind # "dict" THEN st
    ELSE IF ~HasCommand(server_config) THEN st
    ELSE IF server_name \in connect_fails
    THEN [st EXCEPT !.connected_servers = Append(@, server_name),
                    !.log = Append(@, [op |-> "connect", server |-> server_name,
                                       raised |-> TRUE])]
    ELSE [clients |-> DictSet(st.clients, server_name),
          connected_servers |-> Append(st.connected_servers, server_name),
          log |-> Append(st.log, [op |-> "connect", server |-> server_name,
                                  raised |-> FALSE])]

\* the body of the loop over servers_config.items() for one server: a
\* server_config that is no dict has no .get and raises, a falsy command is
\* skipped, an exception of connect() is logged, and the loop goes on
ConnectOne(st, server_name, server_config, connect_fails) ==
    IF server_config.kind # "dict" THEN st
    ELSE IF ~HasCommand(server_config) THEN st
    ELSE IF server_name \in connect_fails
    THEN [st EXCEPT !.log = Append(@, [op |-> "connect", server |-> server_name,
                                       raised |-> TRUE])]
    ELSE [clients |-> DictSet(st.clients, server_name),
          connected_servers |-> Append(st.connected_servers, server_name),
          log |-> Append(st.log, [op |-> "connect", server |-> server_name,
                                  raised |-> FALSE])]

\* ConnectLoop leaving the loop at the first server whose connect raises
RECURSIVE ConnectLoopBreaking(_, _, _)
ConnectLoopBreaking(st, items, connect_fails) ==
    IF items = <<>> THEN st
    ELSE IF Head(items).key \in connect_fails
    THEN ConnectOne(st, Head(items).key, Head(items).value, connect_fails)
    ELSE ConnectLoopBreaking(ConnectOne(st, Head(items).key, Head(items).value,
                                        connect_fails),
                             Tail(items), connect_fails)

RECURSIVE ConnectLoop(_, _, _)
ConnectLoop(st, items, connect_fails) ==
    IF items = <<>> THEN st
    ELSE ConnectLoop(ConnectOne(st, Head(items).key, Head(items).value, connect_fails),
                     Tail(items), connect_fails)

\* SetupMcpServers without the disconnect_all() of line 41
SetupMcpServersAdding(mgr, mcp_server_config, connect_fails, disc_fails) ==
    IF ~Truthy(mcp_server_config)
    THEN [clients |-> mgr.clients, connected_servers |-> mgr.connected_servers,
          log |-> <<>>, ret |-> FALSE]
    ELSE LET servers_config ==
                 IF HasKey(mcp_server_config, "mcpServers")
                 THEN GetItem(mcp_server_config, "mcpServers")
                 ELSE mcp_server_config
             done == ConnectLoop([clients |-> mgr.clients,
                                  connected_servers |-> mgr.connected_servers,
                                  log |-> <<>>],
                                 servers_config.items, connect_fails)
         IN  [clients |-> done.clients,
              connected_servers |-> done.connected_servers,
              log |-> done.log,
              ret |-> Len(done.connected_servers) > 0]

\* setup_mcp_servers(mcp_server_config) on the manager mgr, where connect()
\* raises for the servers of connect_fails and disconnect() for those of
\* disc_fails: the manager afterwards, the calls made, the value returned
SetupMcpServers(mgr, mcp_server_config, connect_fails, disc_fails) ==
    IF ~Truthy(mcp_server_config)
    THEN [clients |-> mgr.clients, connected_servers |-> mgr.connected_servers,
          log |-> <<>>, ret |-> FALSE]
    ELSE LET servers_config ==
                 IF HasKey(mcp_server_config, "mcpServers")
                 THEN GetItem(mcp_server_config, "mcpServers")
                 ELSE mcp_server_config
             cleared == DisconnectAll(mgr, disc_fails)
             done == ConnectLoop(cleared, servers_config.items, connect_fails)
         IN  [clients |-> done.clients,
              connected_servers |-> done.connected_servers,
              log |-> done.log,
              ret |-> Len(done.connected_servers) > 0]

\* the tools an MCP server offers, and the tool_filter arguments: None or a
\* list of tool names
ToolNames == {"t1", "t2"}
ToolFilters == {PyNone, <<"t1">>}

\* client.register_to_controller(controller, tool_filter, prefix) of the
\* client of server_name, whose server offers tools: the action names it
\* adds to the controller, one per offered tool that passes the filter
RegisterToController(server_name, tools, tool_filter) ==
    {"mcp_" \o server_name \o "_" \o t :
        t \in {x \in tools : tool_filter = PyNone \/ x \in SeqRange(tool_filter)}}

\* the loop of register_tools_to_controller over self.clients.items(), where
\* register_to_controller raises for the servers of reg_fails (before it adds
\* an action): the action names on the controller and total_tools
RECURSIVE RegisterLoop(_, _, _, _, _)
RegisterLoop(acc, keys, tools_of, reg_fails, tool_filter) ==
    IF keys = <<>> THEN acc
    ELSE IF Head(keys) \in reg_fails
    THEN RegisterLoop(acc, Tail(keys), tools_of, reg_fails, tool_filter)
    ELSE RegisterLoop([registered |-> acc.registered \cup
                           RegisterToController(Head(keys), tools_of[Head(keys)],
                                                tool_filter),
                       total_tools |-> acc.total_tools + 1],
                      Tail(keys), tools_of, reg_fails, tool_filter)

\* register_tools_to_controller(controller, tool_filter) on a controller
\* without MCP actions: the actions registered and the value returned
RegisterToolsToController(mgr, tools_of, reg_fails, tool_filter) ==
    LET done == RegisterLoop([registered |-> {}, total_tools |-> 0], mgr.clients,
                             tools_of, reg_fails, tool_filter)
    IN  [registered |-> done.registered, ret |-> done.total_tools]

Manager == [clients |-> clients, connected_servers |-> connected_servers]

\* is_connected(server_name)
IsConnected(server_name) == server_name \in SeqRange(connected_servers)

InitMCP ==
    /\ clients = <<>>
    /\ connected_servers = <<>>
    /\ mcp_call = [op |-> "none"]

\* the servers of a configuration on which connect() is called
Attempted(cfg) ==
    {e.server : e \in {x \in SeqRange(SetupMcpServers([clients |-> <<>>,
                                          connected_servers |-> <<>>], cfg, {}, {}).log) :
                        x.op = "connect"}}

\* one complete setup_mcp_servers call (calls on one manager do not overlap)
SetupCall ==
    /\ UNCHANGED <<researchVars, llmVars, actVars, overlapVars>>
    /\ \E cfg \in McpConfigs :
      \E connect_fails \in SUBSET Attempted(cfg), disc_fails \in SUBSET SeqRange(clients) :
        LET r == SetupMcpServers(Manager, cfg, connect_fails, disc_fails)
        IN  /\ clients' = r.clients
            /\ connected_servers' = r.connected_servers
            /\ mcp_call' = [op |-> "setup", config |-> cfg,
                            connect_fails |-> connect_fails,
                            disc_fails |-> disc_fails, before |-> Manager,
                            log |-> r.log, ret |-> r.ret]

\* one complete disconnect_all call
DisconnectAllCall ==
    /\ UNCHANGED <<researchVars, llmVars, actVars, overlapVars>>
    /\ \E disc_fails \in SUBSET SeqRange(clients) :
        LET r == DisconnectAll(Manager, disc_fails)
        IN  /\ clients' = r.clients
            /\ connected_servers' = r.connected_servers
            /\ mcp_call' = [op |-> "disconnect_all", disc_fails |-> disc_fails,
                            before |-> Manager, log |-> r.log]

\* one complete register_tools_to_controller call; the manager is only read
RegisterToolsCall ==
    /\ UNCHANGED <<researchVars, llmVars, actVars, overlapVars, clients, connected_servers>>
    /\ \E tools_of \in [SeqRange(clients) -> SUBSET ToolNames],
          reg_fails \in SUBSET SeqRange(clients), tool_filter \in ToolFilters :
        LET r == RegisterToolsToController(Manager, tools_of, reg_fails, tool_filter)
        IN  mcp_call' = [op |-> "register", tools_of |-> tools_of,
                         reg_fails |-> reg_fails, tool_filter |-> tool_filter,
                         before |-> Manager, registered |-> r.registered,
                         ret |-> r.ret]

NextMCP ==
    \/ SetupCall
    \/ DisconnectAllCall
    \/ RegisterToolsCall

(***************************************************************************)
(* llm_provider.py                                                         *)
(***************************************************************************)
\* the provider names the dispatch of get_llm_model has a branch for
OpenAICompatible == {"grok", "alibaba", "moonshot", "unbound", "siliconflow", "modelscope"}
Dispatched == {"anthropic", "openai", "google", "groq", "ollama", "azure_openai",
               "deepseek"} \cup OpenAICompatible

\* the names the caller may pass: the dispatched ones and some others
Providers == Dispatched \cup {"watsonx", "mistral"}

\* provider.upper()
Upper(provider) ==
    CASE provider = "anthropic" -> "ANTHROPIC"
      [] provider = "openai" -> "OPENAI"
      [] provider = "google" -> "GOOGLE"
      [] provider = "groq" -> "GROQ"
      [] provider = "ollama" -> "OLLAMA"
      [] provider = "azure_openai" -> "AZURE_OPENAI"
      [] provider = "deepseek" -> "DEEPSEEK"
      [] provider = "grok" -> "GROK"
      [] provider = "alibaba" -> "ALIBABA"
      [] provider = "moonshot" -> "MOONSHOT"
      [] provider = "unbound" -> "UNBOUND"
      [] provider = "siliconflow" -> "SILICONFLOW"
      [] provider = "modelscope" -> "MODELSCOPE"
      [] provider = "watsonx" -> "WATSONX"
      [] provider = "mistral" -> "MISTRAL"

\* f"{provider.upper()}_API_KEY"
ApiKeyVar(provider) == Upper(provider) \o "_API_KEY"

\* an environment variable that is not set, a keyword argument that is not given
Unset == "<unset>"

\* os.getenv(name, default)
Getenv(env, name, default) ==
    IF name \in DOMAIN env /\ env[name] # Unset THEN env[name] ELSE default

\* kwargs.get(key, default)
KwGet(kwargs, key, default) == IF kwargs[key] # Unset THEN kwargs[key] ELSE default

\* Python's `a or b` on strings and None
Or(a, b) == IF a # Unset /\ a # "" THEN a ELSE b

\* config.PROVIDER_DISPLAY_NAMES.get(provider, provider.upper())
DisplayName(provider) == <<"display name of", provider>>

ValueError(msg) == [kind |-> "error", type |-> "ValueError", msg |-> msg]

MissingKeyError(provider) ==
    ValueError(DisplayName(provider)
               \o <<" API key not found! Please set the ", ApiKeyVar(provider),
                    " environment variable or provide it in the UI.">>)

\* the providers the message of the last branch lists
ListedProviders == <<"anthropic", "openai", "google", "groq", "ollama", "azure_openai",
                     "deepseek", "grok", "alibaba", "moonshot", "unbound",
                     "siliconflow", "modelscope">>

UnsupportedError(provider) ==
    ValueError(<<"Unsupported provider: ", provider, ". Supported providers: ">>
               \o ListedProviders)

Chat(cls, model, temperature, base_url, api_key) ==
    [kind |-> "model", cls |-> cls, model |-> model, temperature |-> temperature,
     base_url |-> base_url, api_key |-> api_key]

\* lines 32-39: every provider but ollama needs a key, from the argument or
\* from the environment; the result is the key, or "" when there is none
ResolveApiKey(provider, kwargs, env) ==
    Or(KwGet(kwargs, "api_key", ""), Getenv(env, ApiKeyVar(provider), ""))

\* NeedsApiKey exempting the local and the Google models
NeedsApiKeyNarrow(provider) == provider \notin {"ollama", "google"}

NeedsApiKey(provider) == provider \notin {"ollama"}

\* base_url_map[provider] and model_defaults[provider] of the compatible branch
BaseUrlMap(provider, env) ==
    CASE provider = "grok" -> Getenv(env, "GROK_ENDPOINT", "https://api.x.ai/v1")
      [] provider = "alibaba" -> Getenv(env, "ALIBABA_ENDPOINT",
                                        "https://dashscope.aliyuncs.com/compatible-mode/v1")
      [] provider = "moonshot" -> Getenv(env, "MOONSHOT_ENDPOINT", Unset)
      [] provider = "unbound" -> Getenv(env, "UNBOUND_ENDPOINT", "https://api.getunbound.ai")
      [] provider = "siliconflow" -> Getenv(env, "SILICONFLOW_ENDPOINT", "")
      [] provider = "modelscope" -> Getenv(env, "MODELSCOPE_ENDPOINT", "")

ModelDefaults(provider) ==
    CASE provider = "grok" -> "grok-3"
      [] provider = "alibaba" -> "qwen-plus"
      [] provider = "moonshot" -> "moonshot-v1-32k-vision-preview"
      [] provider = "unbound" -> "gpt-4o-mini"
      [] provider = "siliconflow" -> "Qwen/QwQ-32B"
      [] provider = "modelscope" -> "Qwen/QwQ-32B"

\* lines 41-134: the dispatch on the provider name, given the resolved key
Dispatch(provider, kwargs, env, api_key) ==
    LET base(var, default) == Or(KwGet(kwargs, "base_url", Unset), Getenv(env, var, default))
        model(default) == KwGet(kwargs, "model_name", default)
    IN
    CASE provider = "anthropic" ->
            Chat("ChatAnthropic", model("claude-3-5-sonnet-20241022"), "0.0",
                 base("ANTHROPIC_ENDPOINT", "https://api.anthropic.com"), api_key)
      [] provider = "openai" ->
            Chat("ChatOpenAI", model("gpt-4o"), "0.2",
                 base("OPENAI_ENDPOINT", "https://api.openai.com/v1"), api_key)
      [] provider = "google" ->
            Chat("ChatGoogle", model("gemini-2.0-flash-exp"), "0.0", Unset, api_key)
      [] provider = "groq" ->
            Chat("ChatGroq", model("llama-3.1-8b-instant"), "0.0",
                 base("GROQ_ENDPOINT", "https://api.groq.com/openai/v1"), api_key)
      [] provider = "ollama" ->
            Chat("ChatOllama", model("qwen2.5:7b"), Unset,
                 base("OLLAMA_ENDPOINT", "http://localhost:11434"), Unset)
      [] provider = "azure_openai" ->
            IF base("AZURE_OPENAI_ENDPOINT", "") \in {"", Unset}
            THEN ValueError(<<"Azure OpenAI endpoint is required">>)
            ELSE Chat("ChatAzureOpenAI", model("gpt-4o"), "0.2",
                      base("AZURE_OPENAI_ENDPOINT", ""), api_key)
      [] provider = "deepseek" ->
            Chat("ChatDeepSeek", model("deepseek-chat"), "0.0",
                 base("DEEPSEEK_ENDPOINT", "https://api.deepseek.com/v1"), api_key)
      [] provider \in OpenAICompatible ->
            LET base_url == Or(KwGet(kwargs, "base_url", Unset), BaseUrlMap(provider, env))
            IN  IF base_url \in {"", Unset}
                THEN ValueError(<<provider, " endpoint is required">>)
                ELSE Chat("ChatOpenAI", model(ModelDefaults(provider)), "0.2",
                          base_url, api_key)
      [] OTHER -> UnsupportedError(provider)

\* get_llm_model(provider, **kwargs) under the environment env: the model it
\* returns or the error it raises
GetLlmModel(provider, kwargs, env) ==
    IF NeedsApiKey(provider) /\ ResolveApiKey(provider, kwargs, env) \in {"", Unset}
    THEN MissingKeyError(provider)
    ELSE Dispatch(provider, kwargs, env,
                  IF NeedsApiKey(provider) THEN ResolveApiKey(provider, kwargs, env)
                  ELSE Unset)

KwargsSet == [api_key : {Unset, "", "sk-arg"},
              base_url : {Unset, "http://arg"},
              model_name : {Unset, "my-model"}]

\* the environments: the provider's two variables, each unset, empty or set
EnvsOf(provider) ==
    [{Upper(provider) \o "_API_KEY", Upper(provider) \o "_ENDPOINT"}
        -> {Unset, "", "from-env"}]

\* the calls of get_llm_model: a provider name, keyword arguments, an environment
LlmInputs ==
    UNION {[op : {"input"}, provider : {provider}, kwargs : KwargsSet,
            env : EnvsOf(provider)] : provider \in Providers}

\* no call of get_llm_model is under way
IdleLLM == llm_call = [op |-> "none"]

\* a call of get_llm_model is about to be made
InitLLM == llm_call \in LlmInputs

\* the call is made
GetLlmModelCall ==
    /\ llm_call.op = "input"
    /\ llm_call' = [op |-> "get_llm_model", provider |-> llm_call.provider,
                    kwargs |-> llm_call.kwargs, env |-> llm_call.env,
                    result |-> GetLlmModel(llm_call.provider, llm_call.kwargs,
                                           llm_call.env)]
    /\ UNCHANGED <<researchVars, mcpVars, actVars, overlapVars>>

NextLLM == GetLlmModelCall

(***************************************************************************)
(* CustomController.act (custom_controller.py)                             *)
(***************************************************************************)
\* action names, character by character: mcp_a, mcp.a, mcp, mc, xmcp, click
McpPrefix == <<"m", "c", "p">>
ActionNames ==
    {<<"m", "c", "p", "_", "a">>, <<"m", "c", "p", ".", "a">>, <<"m", "c", "p">>,
     <<"m", "c">>, <<"x", "m", "c", "p">>, <<"c", "l", "i", "c", "k">>}

\* the value of a set field: None or the parameters of the action
ParamValues == {PyNone, <<"params">>}

\* action.model_dump(exclude_unset=True).items(): the set fields, in order
ActionModels ==
    {<<[name |-> n, params |-> v]>> : n \in ActionNames, v \in ParamValues}
    \cup {<<[name |-> n[1], params |-> v[1]], [name |-> n[2], params |-> v[2]]>> :
            n \in {m \in ActionNames \X ActionNames : m[1] # m[2]},
            v \in ParamValues \X ParamValues}

\* what self.registry.registry.actions.get(name) gives for a name that starts
\* with mcp: None, an action whose function is a tool object (it has
\* ainvoke, as those of register_mcp_tools), or an action whose function is a
\* plain coroutine function (as those registry.action makes)
RegistryKinds == {"absent", "tool", "function"}
Registries == [{n \in ActionNames : StartsWith(n, McpPrefix)} -> RegistryKinds]

ActionResult(extracted_content) == [type |-> "ActionResult", v |-> extracted_content]
AttributeError == <<"AttributeError">>
InvalidResultError(result) ==
    <<"ValueError", "Invalid action result type: ", result.type, " of ">> \o result.v

\* what awaiting mcp_tool.ainvoke(params) does: it returns a str, an
\* ActionResult, None or something else, or it raises
ToolOutcomes ==
    {[raises |-> PyNone, result |-> [type |-> "str", v |-> <<"tool text">>]],
     [raises |-> PyNone, result |-> ActionResult(<<"tool result">>)],
     [raises |-> PyNone, result |-> [type |-> "NoneType", v |-> PyNone]],
     [raises |-> PyNone, result |-> [type |-> "int", v |-> <<"7">>]],
     [raises |-> <<"ToolException">>, result |-> [type |-> "NoneType", v |-> PyNone]]}

\* what awaiting super().act(...) does
SuperOutcomes ==
    {[raises |-> PyNone, result |-> ActionResult(<<"parent result">>)],
     [raises |-> <<"ParentException">>, result |-> [type |-> "NoneType", v |-> PyNone]]}

NoReturn == [type |-> "none", v |-> PyNone]

\* lines 89-101 for the field f: look the tool up, await its ainvoke once,
\* turn its result into an ActionResult
InvokeMcpTool(f, registry, tool_outcome) ==
    IF registry[f.name] # "tool"
    THEN [done |-> TRUE, log |-> <<>>, ret |-> NoReturn, raised |-> AttributeError]
    ELSE LET log == <<[call |-> "ainvoke", name |-> f.name, params |-> f.params]>>
             result == tool_outcome.result
         IN  IF tool_outcome.raises # PyNone
             THEN [done |-> TRUE, log |-> log, ret |-> NoReturn,
                   raised |-> tool_outcome.raises]
             ELSE IF result.type = "str"
             THEN [done |-> TRUE, log |-> log, ret |-> ActionResult(result.v),
                   raised |-> PyNone]
             ELSE IF result.type = "ActionResult"
             THEN [done |-> TRUE, log |-> log, ret |-> result, raised |-> PyNone]
             ELSE IF result.type = "NoneType"
             THEN [done |-> TRUE, log |-> log, ret |-> ActionResult(PyNone),
                   raised |-> PyNone]
             ELSE [done |-> TRUE, log |-> log, ret |-> NoReturn,
                   raised |-> InvalidResultError(result)]

\* the loop of lines 87-101 over the set fields: the first field with
\* parameters whose name starts with mcp ends act
RECURSIVE ActLoop(_, _, _)
ActLoop(items, registry, tool_outcome) ==
    IF items = <<>>
    THEN [done |-> FALSE, log |-> <<>>, ret |-> NoReturn, raised |-> PyNone]
    ELSE IF Head(items).params # PyNone /\ StartsWith(Head(items).name, McpPrefix)
    THEN InvokeMcpTool(Head(items), registry, tool_outcome)
    ELSE ActLoop(Tail(items), registry, tool_outcome)

\* lines 104-112: the action goes to the parent class
SuperAct(action, super_outcome) ==
    [done |-> TRUE, log |-> <<[call |-> "super.act", action |-> action]>>,
     ret |-> IF super_outcome.raises = PyNone THEN super_outcome.result ELSE NoReturn,
     raised |-> super_outcome.raises]

\* Act handing the action to the parent class also after an MCP tool ran
ActForwardingToo(action, registry, tool_outcome, super_outcome) ==
    LET r == ActLoop(action, registry, tool_outcome)
        p == SuperAct(action, super_outcome)
    IN  IF r.done /\ r.raised = PyNone
        THEN [p EXCEPT !.log = r.log \o p.log]
        ELSE IF r.done THEN r ELSE p

\* act(action, ...): the calls made, the value returned, the exception raised
Act(action, registry, tool_outcome, super_outcome) ==
    LET r == ActLoop(action, registry, tool_outcome)
    IN  IF r.done THEN r ELSE SuperAct(action, super_outcome)

ActInputs ==
    [op : {"input"}, action : ActionModels, registry : Registries,
     tool_outcome : ToolOutcomes, super_outcome : SuperOutcomes]

IdleAct == act_call = [op |-> "none"]

\* a call of act is about to be made
InitAct == act_call \in ActInputs

\* the call is made
ActCall ==
    /\ act_call.op = "input"
    /\ act_call' = [op |-> "act", action |-> act_call.action,
                    registry |-> act_call.registry,
                    tool_outcome |-> act_call.tool_outcome,
                    super_outcome |-> act_call.super_outcome,
                    result |-> Act(act_call.action, act_call.registry,
                                   act_call.tool_outcome, act_call.super_outcome)]
    /\ UNCHANGED <<researchVars, mcpVars, llmVars, overlapVars>>

NextAct == ActCall

(***************************************************************************)
(* setup_mcp_servers calls that overlap on the global manager               *)
(* (mcp_client.py): the callers are coroutines of one event loop, a caller  *)
(* runs from one await to the next without interruption                     *)
(***************************************************************************)
Tasks == {1, 2}
MaxSetups == 3

\* the configurations of the overlapping calls: plain, at least one server
\* with a command
OverlapConfigs ==
    {c \in ServerDicts : \E i \in 1..Len(c.items) : HasCommand(c.items[i].value)}

IdleTask ==
    [pc |-> "idle", items |-> <<>>, it_used |-> 0, it_pos |-> 0, client |-> 0,
     server |-> "", ret |-> FALSE, calls |-> 0]

InitOverlap ==
    /\ mcp_manager = [clients |-> <<>>, connected_servers |-> <<>>]
    /\ tasks = [t \in Tasks |-> IdleTask]
    /\ made = 0
    /\ live = {}
    /\ iter_insert = FALSE

World ==
    [mgr |-> mcp_manager, tasks |-> tasks, made |-> made, live |-> live,
     iter_insert |-> iter_insert]

\* self.clients[key] = client: a key that is there keeps its place
DictPut(d, key, client) ==
    IF \E i \in 1..Len(d) : d[i].key = key
    THEN [i \in 1..Len(d) |->
             IF d[i].key = key THEN [key |-> key, client |-> client] ELSE d[i]]
    ELSE Append(d, [key |-> key, client |-> client])

\* setup_mcp_servers of caller t returns value
Return(w, t, value) ==
    [w EXCEPT !.tasks[t] = [IdleTask EXCEPT !.pc = "returned", !.ret = value,
                                            !.calls = w.tasks[t].calls]]

\* the loop of line 44 from its head to the await of line 65, or past its
\* end to the return of line 78
RECURSIVE ConnectNext(_, _, _)
ConnectNext(w, t, items) ==
    IF items = <<>> THEN Return(w, t, Len(w.mgr.connected_servers) > 0)
    ELSE IF Head(items).value.kind # "dict" \/ ~HasCommand(Head(items).value)
    THEN ConnectNext(w, t, Tail(items))
    ELSE [w EXCEPT !.made = @ + 1,
                   !.tasks[t] = [@ EXCEPT !.pc = "connecting", !.items = items,
                                          !.it_used = 0, !.it_pos = 0,
                                          !.client = w.made + 1,
                                          !.server = Head(items).key]]

\* disconnect_all from the next() of the iterator of line 125 (made when
\* clients had used entries, pos of them taken) to the await of line 127; a
\* dict of another size makes next() raise RuntimeError, which leaves
\* disconnect_all and is caught at line 80; at the end of the loop lines
\* 132-133 clear both collections and setup_mcp_servers goes on to line 44
IterNext(w, t, used, pos) ==
    IF Len(w.mgr.clients) # used THEN Return(w, t, FALSE)
    ELSE IF pos >= Len(w.mgr.clients)
    THEN ConnectNext([w EXCEPT !.mgr = [clients |-> <<>>, connected_servers |-> <<>>]],
                     t, w.tasks[t].items)
    ELSE [w EXCEPT !.live = @ \ {w.mgr.clients[pos + 1].client},
                   !.tasks[t] = [@ EXCEPT !.pc = "disconnecting",
                                          !.it_used = used, !.it_pos = pos + 1,
                                          !.client = w.mgr.clients[pos + 1].client,
                                          !.server = w.mgr.clients[pos + 1].key]]

\* lines 68-69 after connect() returned: the client is stored
StoreClient(w, t) ==
    [w EXCEPT !.mgr = [clients |-> DictPut(@.clients, w.tasks[t].server,
                                           w.tasks[t].client),
                       connected_servers |-> Append(@.connected_servers,
                                                    w.tasks[t].server)],
              !.live = @ \cup {w.tasks[t].client},
              !.iter_insert = @ \/ \E u \in Tasks \ {t} :
                                       w.tasks[u].pc = "disconnecting"]

Becomes(w) ==
    /\ mcp_manager' = w.mgr
    /\ tasks' = w.tasks
    /\ made' = w.made
    /\ live' = w.live
    /\ iter_insert' = w.iter_insert
    /\ UNCHANGED <<researchVars, mcpVars, llmVars, actVars>>

\* a caller enters setup_mcp_client_and_tools with a non-empty configuration
\* and runs to its first await
StartSetup ==
    \E t \in Tasks, cfg \in OverlapConfigs :
        /\ tasks[t].pc \in {"idle", "returned"}
        /\ tasks[1].calls + tasks[2].calls < MaxSetups
        /\ Becomes(IterNext([World EXCEPT !.tasks[t] =
                                 [IdleTask EXCEPT !.items = cfg.items,
                                                  !.calls = tasks[t].calls + 1]],
                            t, Len(mcp_manager.clients), 0))

\* the await of client.disconnect() ends (it returned or it raised)
ResumeDisconnect ==
    \E t \in Tasks :
        /\ tasks[t].pc = "disconnecting"
        /\ Becomes(IterNext(World, t, tasks[t].it_used, tasks[t].it_pos))

\* the await of client.connect() ends: it returned or it raised
ResumeConnect ==
    \E t \in Tasks, ok \in BOOLEAN :
        /\ tasks[t].pc = "connecting"
        /\ Becomes(ConnectNext(IF ok THEN StoreClient(World, t) ELSE World,
                               t, Tail(tasks[t].items)))

NextOverlap ==
    \/ StartSetup
    \/ ResumeDisconnect
    \/ ResumeConnect


Init == InitResearch /\ InitMCP /\ IdleLLM /\ IdleAct /\ InitOverlap

SpecResearch == Init /\ [][NextResearch]_vars

SpecMCP == Init /\ [][NextMCP]_vars

InitCall == InitResearch /\ InitMCP /\ InitLLM /\ IdleAct /\ InitOverlap

SpecLLM == InitCall /\ [][NextLLM]_vars

InitActCall == InitResearch /\ InitMCP /\ IdleLLM /\ InitAct /\ InitOverlap

SpecAct == InitActCall /\ [][NextAct]_vars

SpecOverlap == Init /\ [][NextOverlap]_vars

(***************************************************************************)
(* Properties of research()                                                *)
(***************************************************************************)
\* whether text t occurs in text s as a contiguous run of tokens
Contains(s, t) ==
    \E i \in 0..(Len(s) - Len(t)) : SubSeq(s, i + 1, i + Len(t)) = t

\* how often step e happened in the current call, and where
Count(e) == Cardinality({i \in 1..Len(events) : events[i] = e})
Happened(e) == e \in SeqRange(events)
IndexOf(e) == CHOOSE i \in 1..Len(events) : events[i] = e
Before(e1, e2) == Happened(e2) => Happened(e1) /\ IndexOf(e1) < IndexOf(e2)

\* C1: every research() call that returns has written exactly one file, the
\* report.md of output_dir, holding the report, and returns the path of it;
\* it never returns the path of a file that was not written.
C1_ReturnedReportIsWritten ==
    pc = "returned" =>
        /\ retval = PathJoin(output_dir, REPORT_FILENAME)
        /\ written = {retval}
        /\ files[retval] = report_content

StoppedBeforeRun ==
    /\ stop_at # PyNone
    /\ stop_at[1] \in {"makedirs", "build", "stop_check"}

\* C3: when stop() is called during research() before the browser agent's run
\* has started, the stop check of run_single_browser_task sees the flag: the
\* agent is not run and a task that reached the check ends as cancelled.
C3_StopBeforeRunCancels ==
    StoppedBeforeRun =>
        /\ ~Happened("agent_run")
        /\ task_result.status \in {"none", "cancelled", "failed"}

\* C8: a failure of the browser step never makes research() raise: the task
\* result has status failed and a text starting with "Error: ", that text is
\* the research data given to the LLM, and research() still writes the report
\* and returns its path.
C8_BrowserFailureStillReports ==
    task_result.status = "failed" =>
        /\ pc # "raised"
        /\ StartsWith(task_result.result, <<"Error: ">>)
        /\ research_data = task_result.result
        /\ llm_prompt # PyNone => Contains(llm_prompt, task_result.result)
        /\ pc = "returned" =>
              /\ retval = PathJoin(output_dir, REPORT_FILENAME)
              /\ files[retval] = report_content

\* C8 without the write: what holds of a failed browser step whatever the file
\* system does.
BrowserFailureIsReported ==
    task_result.status = "failed" =>
        /\ pc # "raised"
        /\ StartsWith(task_result.result, <<"Error: ">>)
        /\ research_data = task_result.result
        /\ llm_prompt # PyNone => Contains(llm_prompt, task_result.result)
        /\ pc = "returned" =>
              /\ retval = PathJoin(output_dir, REPORT_FILENAME)
              /\ Happened("write")

\* C10: a failure of the LLM call never makes research() raise nor loses the
\* data: the report states the failure and holds the research data verbatim,
\* and research() still writes report.md and returns its path.
C10_LlmFailureStillReports ==
    llm_raised # PyNone =>
        /\ pc # "raised"
        /\ Contains(report_content, <<"Failed to generate report: ">> \o llm_raised)
        /\ Contains(report_content, research_data)
        /\ pc = "returned" =>
              /\ retval = PathJoin(output_dir, REPORT_FILENAME)
              /\ files[retval] = report_content

\* C10 without the write: what holds of a failed LLM call whatever the file
\* system does.
LlmFailureIsReported ==
    llm_raised # PyNone =>
        /\ pc # "raised"
        /\ Contains(report_content, <<"Failed to generate report: ">> \o llm_raised)
        /\ Contains(report_content, research_data)
        /\ pc = "returned" =>
              /\ retval = PathJoin(output_dir, REPORT_FILENAME)
              /\ Happened("write")

\* research() has left: by return or by exception
Exited == pc \in {"returned", "raised"}

\* C11: an exception raised inside research() reaches the caller unchanged,
\* and on every exit of research(), by return or by exception,
\* current_task_id is None, so that a stop() after the exit records no entry
\* for the task in _AGENT_STOP_FLAGS.
C11_ExitClearsTaskId ==
    /\ pc = "raised" => /\ thrown # PyNone
                        /\ raised = thrown
                        /\ retval = PyNone
    /\ pc = "returned" => raised = PyNone /\ thrown = PyNone
    /\ thrown # PyNone => pc = "raised"
    /\ Exited => current_task_id = PyNone
    /\ (stop_at # PyNone /\ stop_at[1] \in {"returned", "raised"}) =>
          NewTaskId(runs) \notin AGENT_STOP_FLAGS

\* C11 witness: the second research() call failed to make its directory, the
\* error reached the caller, and stop() ran after that.
C11_Witness ==
    /\ pc = "raised"
    /\ runs = 2
    /\ raised = <<"PermissionError">>
    /\ stop_at = <<"raised">>
    /\ stopped
    /\ current_task_id = PyNone

\* C18: _BROWSER_AGENT_INSTANCES holds an entry for a task id only while that
\* task's run_single_browser_task is in progress: once it has returned, with
\* any status, the registry holds nothing for the task, and after any number
\* of research runs it is empty.
C18_RegistryOnlyWhileRunning ==
    /\ \A id \in BROWSER_AGENT_INSTANCES :
          /\ id = task_id
          /\ pc \in {"stop_check", "agent_running"}
    /\ task_result.status # "none" => BROWSER_AGENT_INSTANCES = {}
    /\ pc \in {"idle", "returned", "raised"} => BROWSER_AGENT_INSTANCES = {}

\* C18 witness: the second run has returned after a task that failed before
\* its agent was stored, the first run having stored and run its agent, and
\* the registry is empty.
C18_Witness ==
    /\ pc = "returned"
    /\ runs = 2
    /\ task_result.status = "failed"
    /\ ~Happened("agent_run")
    /\ files[PathJoin("out1", REPORT_FILENAME)] = ResponseText(CHOOSE r \in LlmResponses : r.content = NoAttr /\ r.text # NoAttr)
    /\ output_dir = "out2"
    /\ BROWSER_AGENT_INSTANCES = {}

(***************************************************************************)
(* Properties of MCPManager.setup_mcp_servers                              *)
(***************************************************************************)
\* the connect() calls of the last call that succeeded
Connected(log) == {i \in 1..Len(log) : log[i].op = "connect" /\ ~log[i].raised}

\* a plain server dictionary, and the servers a configuration holds: those of
\* the dictionary, or of the dictionary under its mcpServers key
IsPlain(cfg) == ~HasKey(cfg, "mcpServers")
ServersOf(cfg) == IF IsPlain(cfg) THEN cfg.items ELSE GetItem(cfg, "mcpServers").items

\* every server of the configuration lacks a command or fails to connect
AllFailing(cfg, connect_fails) ==
    \A i \in 1..Len(ServersOf(cfg)) :
        \/ ServersOf(cfg)[i].value.kind # "dict"
        \/ ~HasCommand(ServersOf(cfg)[i].value)
        \/ ServersOf(cfg)[i].key \in connect_fails

\* C4: setup_mcp_servers returns False when the configuration is empty and
\* when no server of it ends up connected in this call (each lacks a command
\* or its connect raises), whatever the manager held before.
C4_FalseWhenNothingConnects ==
    mcp_call.op = "setup" =>
        /\ ~Truthy(mcp_call.config) => ~mcp_call.ret
        /\ Connected(mcp_call.log) = {} => ~mcp_call.ret
        /\ AllFailing(mcp_call.config, mcp_call.connect_fails) => ~mcp_call.ret

\* C4 witness: a manager that held a connected server was given a
\* configuration of two servers, one without a command and one whose connect
\* raised, and returned False.
C4_Witness ==
    /\ mcp_call.op = "setup"
    /\ Len(mcp_call.before.connected_servers) > 0
    /\ Len(mcp_call.config.items) = 2
    /\ IsPlain(mcp_call.config)
    /\ mcp_call.connect_fails # {}
    /\ AllFailing(mcp_call.config, mcp_call.connect_fails)
    /\ ~mcp_call.ret

\* C5: setup_mcp_servers returns True when at least one server connects, and
\* connected_servers then holds at least one entry; a server that fails or has
\* no command neither makes the result False nor keeps the servers after it
\* from being attempted.
C5_TrueWhenOneConnects ==
    mcp_call.op = "setup" /\ Truthy(mcp_call.config) =>
        /\ Connected(mcp_call.log) # {} =>
              /\ mcp_call.ret
              /\ Len(connected_servers) >= 1
              /\ \A i \in Connected(mcp_call.log) :
                    mcp_call.log[i].server \in SeqRange(connected_servers)
        /\ \A i \in 1..Len(ServersOf(mcp_call.config)) :
              LET item == ServersOf(mcp_call.config)[i]
              IN  (item.value.kind = "dict" /\ HasCommand(item.value)) =>
                     \E j \in 1..Len(mcp_call.log) :
                        /\ mcp_call.log[j].op = "connect"
                        /\ mcp_call.log[j].server = item.key
                        /\ mcp_call.log[j].raised = (item.key \in mcp_call.connect_fails)

\* C5 witness: the first server's connect raised, the second connected, and
\* the call returned True.
C5_Witness ==
    /\ mcp_call.op = "setup"
    /\ Len(mcp_call.log) >= 2
    /\ mcp_call.log[Len(mcp_call.log) - 1] = [op |-> "connect", server |-> "a", raised |-> TRUE]
    /\ mcp_call.log[Len(mcp_call.log)] = [op |-> "connect", server |-> "b", raised |-> FALSE]
    /\ mcp_call.ret
    /\ connected_servers = <<"b">>

\* C9: nesting a server dictionary under mcpServers changes nothing: from the
\* same manager state and with the same connect and disconnect failures,
\* setup_mcp_servers({"mcpServers": C}) returns what setup_mcp_servers(C)
\* returned, leaves the same clients and connected_servers and makes the same
\* calls, for every server dictionary C, the empty one included.
C9_NestedSameAsPlain ==
    (mcp_call.op = "setup" /\ mcp_call.config \in ServerDicts) =>
        LET nested == SetupMcpServers(mcp_call.before, Nested(mcp_call.config),
                                      mcp_call.connect_fails, mcp_call.disc_fails)
        IN  /\ nested.ret = mcp_call.ret
            /\ nested.clients = clients
            /\ nested.connected_servers = connected_servers
            /\ nested.log = mcp_call.log

\* C9 for the dictionaries that are not empty and name no server mcpServers.
NestedSameAsPlainNonEmpty ==
    (mcp_call.op = "setup" /\ mcp_call.config \in ServerDicts
       /\ Truthy(mcp_call.config) /\ IsPlain(mcp_call.config)) =>
        LET nested == SetupMcpServers(mcp_call.before, Nested(mcp_call.config),
                                      mcp_call.connect_fails, mcp_call.disc_fails)
        IN  /\ nested.ret = mcp_call.ret
            /\ nested.clients = clients
            /\ nested.connected_servers = connected_servers
            /\ nested.log = mcp_call.log

\* C12: a disconnect_all call calls disconnect exactly once on every client
\* held in clients, in their order, also on those after a client whose
\* disconnect raised, and leaves clients and connected_servers empty
C12_DisconnectAllDisconnectsAll ==
    mcp_call.op = "disconnect_all" =>
        LET log == mcp_call.log
            held == mcp_call.before.clients
        IN  /\ Len(log) = Len(held)
            /\ \A i \in 1..Len(log) :
                  /\ log[i].op = "disconnect"
                  /\ log[i].server = held[i]
                  /\ log[i].raised <=> held[i] \in mcp_call.disc_fails
            /\ \A name \in SeqRange(held) :
                  Cardinality({i \in 1..Len(log) : log[i].server = name}) = 1
            /\ clients = <<>>
            /\ connected_servers = <<>>

\* two clients are held, the disconnect of the first raises, the second is
\* disconnected all the same
C12_Witness ==
    /\ mcp_call.op = "disconnect_all"
    /\ mcp_call.before.clients = <<"a", "b">>
    /\ mcp_call.disc_fails = {"a"}
    /\ mcp_call.log = <<[op |-> "disconnect", server |-> "a", raised |-> TRUE],
                        [op |-> "disconnect", server |-> "b", raised |-> FALSE]>>
    /\ clients = <<>>
    /\ connected_servers = <<>>

\* C14: register_tools_to_controller returns the number of tools registered
\* to the controller, summed over the servers whose registration succeeded
C14_ReturnsNumberOfTools ==
    mcp_call.op = "register" => mcp_call.ret = Cardinality(mcp_call.registered)

\* what register_tools_to_controller does return is the number of servers
\* whose registration succeeded, and the tools of every such server are
\* registered whichever servers failed
RegisterCountsServers ==
    mcp_call.op = "register" =>
        LET succeeded == SeqRange(mcp_call.before.clients) \ mcp_call.reg_fails
        IN  /\ mcp_call.ret = Cardinality(succeeded)
            /\ mcp_call.registered =
                  UNION {RegisterToController(name, mcp_call.tools_of[name],
                                              mcp_call.tool_filter) :
                         name \in succeeded}

NoDuplicates(seq) == \A i, j \in 1..Len(seq) : seq[i] = seq[j] => i = j

\* C15: between the calls connected_servers holds no name twice and holds
\* exactly the keys of clients, so that is_connected(name) is true exactly for
\* the names with a client; after a setup, a server of the configuration
\* whose connect raised or that has no command is in neither
C15_NamesMatchClients ==
    /\ NoDuplicates(connected_servers)
    /\ NoDuplicates(clients)
    /\ SeqRange(connected_servers) = SeqRange(clients)
    /\ \A name \in ServerNames \cup {"mcpServers", "command", "args"} :
          IsConnected(name) <=> name \in SeqRange(clients)
    /\ (mcp_call.op = "setup" /\ Truthy(mcp_call.config)) =>
          \A i \in 1..Len(ServersOf(mcp_call.config)) :
            LET it == ServersOf(mcp_call.config)[i]
            IN  (\/ it.key \in mcp_call.connect_fails
                 \/ it.value.kind # "dict"
                 \/ ~HasCommand(it.value))
                => /\ ~IsConnected(it.key)
                   /\ it.key \notin SeqRange(clients)

\* b was connected by an earlier setup; this setup connects a, the connect of
\* b raises: only a is held and connected
C15_Witness ==
    /\ mcp_call.op = "setup"
    /\ "b" \in SeqRange(mcp_call.before.connected_servers)
    /\ mcp_call.connect_fails = {"b"}
    /\ mcp_call.log[Len(mcp_call.log)] = [op |-> "connect", server |-> "b", raised |-> TRUE]
    /\ clients = <<"a">>
    /\ connected_servers = <<"a">>
    /\ IsConnected("a") /\ ~IsConnected("b")

\* the server names of a configuration that have a command
WithCommand(cfg) ==
    {ServersOf(cfg)[i].key :
        i \in {j \in 1..Len(ServersOf(cfg)) :
                 /\ ServersOf(cfg)[j].value.kind = "dict"
                 /\ HasCommand(ServersOf(cfg)[j].value)}}

\* C17: a setup with a non-empty configuration first calls disconnect on
\* every client held before, only then connects, and returns with
\* connected_servers holding only servers of the new configuration that have
\* a command and were connected by this call
C17_SetupReplacesConnections ==
    (mcp_call.op = "setup" /\ Truthy(mcp_call.config)) =>
        LET log == mcp_call.log
            held == mcp_call.before.clients
        IN  /\ Len(log) >= Len(held)
            /\ \A i \in 1..Len(held) :
                  log[i].op = "disconnect" /\ log[i].server = held[i]
            /\ \A i \in (Len(held) + 1)..Len(log) : log[i].op = "connect"
            /\ SeqRange(connected_servers) \subseteq WithCommand(mcp_call.config)
            /\ \A name \in SeqRange(connected_servers) :
                  \E i \in Connected(log) : log[i].server = name
            /\ SeqRange(clients) = SeqRange(connected_servers)

\* a and b were connected; a setup for b alone disconnects both (the
\* disconnect of a raising) and reconnects b: a does not survive
C17_Witness ==
    /\ mcp_call.op = "setup"
    /\ mcp_call.before.connected_servers = <<"a", "b">>
    /\ mcp_call.disc_fails = {"a"}
    /\ WithCommand(mcp_call.config) = {"b"}
    /\ mcp_call.log = <<[op |-> "disconnect", server |-> "a", raised |-> TRUE],
                        [op |-> "disconnect", server |-> "b", raised |-> FALSE],
                        [op |-> "connect", server |-> "b", raised |-> FALSE]>>
    /\ connected_servers = <<"b">>
    /\ clients = <<"b">>

(***************************************************************************)
(* Properties of overlapping setup_mcp_servers calls                       *)
(***************************************************************************)
\* the clients the manager refers to
Referenced == {mcp_manager.clients[i].client : i \in 1..Len(mcp_manager.clients)}

\* C16: while setup_mcp_servers calls overlap, every client whose connect
\* succeeded and on which disconnect was not called is referenced by clients,
\* connected_servers holds no name twice, and no call inserts into clients
\* while the disconnect_all loop of another call is open
C16_NoClientLost ==
    /\ live \subseteq Referenced
    /\ NoDuplicates(mcp_manager.connected_servers)
    /\ ~iter_insert

\* each of the three parts on its own
OverlapKeepsClients == live \subseteq Referenced
OverlapNoDuplicateNames == NoDuplicates(mcp_manager.connected_servers)
OverlapNoInsertWhileIterating == ~iter_insert

(***************************************************************************)
(* Properties of CustomController.act                                      *)
(***************************************************************************)
\* the places of the set fields with parameters whose name starts with mcp
McpFields(action) ==
    {i \in 1..Len(action) :
        action[i].params # PyNone /\ StartsWith(action[i].name, McpPrefix)}

Calls(log, call) == {i \in 1..Len(log) : log[i].call = call}

\* C13: act on an action with a set field that has parameters and a name
\* starting with mcp awaits ainvoke of the tool registered for the first
\* such field exactly once, with the parameters of the field, and never
\* calls the parent act (where no tool is registered for the name, nothing
\* is called and act raises); act on an action without such a field calls
\* the parent act exactly once, with the action, and no tool
C13_McpToolsHandledOthersForwarded ==
    act_call.op = "act" =>
        LET log == act_call.result.log
            mcp == McpFields(act_call.action)
        IN  IF mcp # {}
            THEN LET f == act_call.action[CHOOSE i \in mcp : \A j \in mcp : i <= j]
                 IN  /\ Calls(log, "super.act") = {}
                     /\ act_call.registry[f.name] = "tool" =>
                           log = <<[call |-> "ainvoke", name |-> f.name,
                                    params |-> f.params]>>
                     /\ act_call.registry[f.name] # "tool" =>
                           log = <<>> /\ act_call.result.raised = AttributeError
            ELSE /\ log = <<[call |-> "super.act", action |-> act_call.action]>>
                 /\ Calls(log, "ainvoke") = {}
                 /\ act_call.result.raised = act_call.super_outcome.raises

\* an action with the fields click and mcp_a, both with parameters: the tool
\* of mcp_a is awaited once, its text comes back as an ActionResult, the
\* parent is not called
C13_Witness ==
    /\ act_call.op = "act"
    /\ act_call.action = <<[name |-> <<"c", "l", "i", "c", "k">>, params |-> <<"params">>],
                           [name |-> <<"m", "c", "p", "_", "a">>, params |-> <<"params">>]>>
    /\ act_call.registry[<<"m", "c", "p", "_", "a">>] = "tool"
    /\ act_call.result.log = <<[call |-> "ainvoke", name |-> <<"m", "c", "p", "_", "a">>,
                                params |-> <<"params">>]>>
    /\ act_call.result.ret = ActionResult(<<"tool text">>)
    /\ act_call.result.raised = PyNone

\* an action whose only field with parameters is xmcp, its mcp field set to
\* None: the parent is called once, no tool
ForwardedWitness ==
    /\ act_call.op = "act"
    /\ act_call.action = <<[name |-> <<"m", "c", "p">>, params |-> PyNone],
                           [name |-> <<"x", "m", "c", "p">>, params |-> <<"params">>]>>
    /\ act_call.result.log = <<[call |-> "super.act", action |-> act_call.action]>>
    /\ act_call.result.ret = ActionResult(<<"parent result">>)

(***************************************************************************)
(* Properties of get_llm_model                                             *)
(***************************************************************************)
\* the environment variable {PROVIDER}_API_KEY of each provider name
ExpectedKeyVar ==
    [provider \in Providers |->
        CASE provider = "anthropic" -> "ANTHROPIC_API_KEY"
          [] provider = "openai" -> "OPENAI_API_KEY"
          [] provider = "google" -> "GOOGLE_API_KEY"
          [] provider = "groq" -> "GROQ_API_KEY"
          [] provider = "ollama" -> "OLLAMA_API_KEY"
          [] provider = "azure_openai" -> "AZURE_OPENAI_API_KEY"
          [] provider = "deepseek" -> "DEEPSEEK_API_KEY"
          [] provider = "grok" -> "GROK_API_KEY"
          [] provider = "alibaba" -> "ALIBABA_API_KEY"
          [] provider = "moonshot" -> "MOONSHOT_API_KEY"
          [] provider = "unbound" -> "UNBOUND_API_KEY"
          [] provider = "siliconflow" -> "SILICONFLOW_API_KEY"
          [] provider = "modelscope" -> "MODELSCOPE_API_KEY"
          [] provider = "watsonx" -> "WATSONX_API_KEY"
          [] provider = "mistral" -> "MISTRAL_API_KEY"]

\* the call was given no key: none as argument, none in the environment
NoKeyGiven ==
    /\ llm_call.kwargs.api_key \in {Unset, ""}
    /\ llm_call.env[ExpectedKeyVar[llm_call.provider]] \in {Unset, ""}

\* C6: for every provider name but ollama, get_llm_model raises and builds no
\* model when neither the api_key argument nor {PROVIDER}_API_KEY holds a key,
\* and the message names that variable; for ollama a missing key is never the
\* reason of an error.
C6_MissingKeyRaises ==
    llm_call.op = "get_llm_model" =>
        /\ (llm_call.provider # "ollama" /\ NoKeyGiven) =>
              /\ llm_call.result.kind = "error"
              /\ ExpectedKeyVar[llm_call.provider] \in SeqRange(llm_call.result.msg)
        /\ llm_call.provider = "ollama" =>
              /\ llm_call.result.kind = "model"
              /\ llm_call.result.cls = "ChatOllama"

\* C6 witness: deepseek was asked for with no key anywhere and the call raised
\* naming DEEPSEEK_API_KEY.
C6_Witness ==
    /\ llm_call.op = "get_llm_model"
    /\ llm_call.provider = "deepseek"
    /\ NoKeyGiven
    /\ llm_call.result.kind = "error"
    /\ "DEEPSEEK_API_KEY" \in SeqRange(llm_call.result.msg)

\* C7: for every provider name the dispatch has no branch for, get_llm_model
\* raises an error whose message lists the supported providers, whether or
\* not a key for that name is given.
C7_UnsupportedListsProviders ==
    (llm_call.op = "get_llm_model" /\ llm_call.provider \notin Dispatched) =>
        /\ llm_call.result.kind = "error"
        /\ \A p \in Dispatched : p \in SeqRange(llm_call.result.msg)

\* C7 for the calls that give a key.
UnsupportedWithKeyListsProviders ==
    (llm_call.op = "get_llm_model" /\ llm_call.provider \notin Dispatched
       /\ ~NoKeyGiven) =>
        /\ llm_call.result.kind = "error"
        /\ \A p \in Dispatched : p \in SeqRange(llm_call.result.msg)

\* C7 for the calls that give no key: the error is the missing-key one.
UnsupportedWithoutKeyAsksForKey ==
    (llm_call.op = "get_llm_model" /\ llm_call.provider \notin Dispatched
       /\ NoKeyGiven) =>
        /\ llm_call.result.kind = "error"
        /\ ExpectedKeyVar[llm_call.provider] \in SeqRange(llm_call.result.msg)
        /\ \E p \in Dispatched : p \notin SeqRange(llm_call.result.msg)
====
